---- MODULE Spec2Model ----
(***************************************************************************)
(* Phaser.Components.Texture (src/Phaser/components/sprite/Texture.ts):    *)
(* the texture binding of one Sprite.  The state is the Texture's fields   *)
(* and the fields of the parent Sprite that the Texture writes             *)
(* (animations.frameData, frameBounds, body.bounds).  Each public method   *)
(* is an operator from a world record to a world record, translated        *)
(* statement by statement; an action applies one method call.              *)
(***************************************************************************)
EXTENDS Integers, Sequences, FiniteSets, TLC

\* ---------------------------------------------------------------- bounds
\* Cache keys are 0..MaxKey; key 0 is a key the cache does not hold (the
\* constructor's default '' is one).
MaxKey == 2
\* DynamicTexture objects are numbered 1..MaxDyn.
MaxDyn == 1

\* ---------------------------------------------------------------- values
\* JavaScript references are records [kind, id]; null and undefined are
\* references of their own kind.
Null == [kind |-> "null", id |-> 0]
Undefined == [kind |-> "undefined", id |-> 0]
Image(k) == [kind |-> "image", id |-> k]
DynamicTextureObj(d) == [kind |-> "dynamic", id |-> d]
Canvas(d) == [kind |-> "canvas", id |-> d]
FrameData(k) == [kind |-> "frameData", id |-> k]

\* JavaScript truthiness of a reference: if (dynamic) ...
Truthy(r) == r.kind \notin {"null", "undefined"}

\* The key parameter when the caller passes null (constructor, line 31); also
\* the value of the cacheKey field while it has never been assigned.
NullKey == 0 - 1

Keys == 0 .. MaxKey
Images == {Image(k) : k \in 1 .. MaxKey}
DynamicTextures == {DynamicTextureObj(d) : d \in 1 .. MaxDyn}

\* Dimensions of the pixel sources (properties .width/.height of the Image
\* and of the DynamicTexture, read by the getters).  Every source has its
\* own size, so a read of a stale source is visible.
SourceWidth(r) == IF r.kind = "image" THEN r.id ELSE 100 + r.id
SourceHeight(r) == IF r.kind = "image" THEN r.id + 1 ELSE 200 + r.id

\* ---------------------------------------------------------------- cache
\* game.cache: key 0 ('') is absent, keys 1..MaxKey hold an image; the even
\* keys are sprite sheets with frame data.
getImage(key) == IF key \in 1 .. MaxKey THEN Image(key) ELSE Null
isSpriteSheet(key) == key \in 1 .. MaxKey /\ key % 2 = 0
getFrameData(key) == IF isSpriteSheet(key) THEN FrameData(key) ELSE Null

\* ---------------------------------------------------------------- calls
\* The collaborator call sequence of one method call: each statement that
\* calls a collaborator, swaps the backend or writes a bounds field appends
\* one event.
Event(name, arg, arg2) == [name |-> name, arg |-> arg, arg2 |-> arg2]
Log(w, name, arg, arg2) == [w EXCEPT !.calls = Append(@, Event(name, arg, arg2))]
Names(cs) == {cs[i].name : i \in 1 .. Len(cs)}
Pos(cs, name) == {i \in 1 .. Len(cs) : cs[i].name = name}

\* ---------------------------------------------------------------- getters
Selected(w) == IF w.this.isDynamic THEN w.this.dynamicTexture ELSE w.this.imageTexture

\* A getter's result: ok = FALSE is the TypeError of reading .width of null.
Result(ok, value) == [ok |-> ok, value |-> value]

width(w) ==
    IF w.this.isDynamic
    THEN IF Truthy(w.this.dynamicTexture)
         THEN Result(TRUE, SourceWidth(w.this.dynamicTexture))
         ELSE Result(FALSE, 0)
    ELSE IF Truthy(w.this.imageTexture)
         THEN Result(TRUE, SourceWidth(w.this.imageTexture))
         ELSE Result(FALSE, 0)

height(w) ==
    IF w.this.isDynamic
    THEN IF Truthy(w.this.dynamicTexture)
         THEN Result(TRUE, SourceHeight(w.this.dynamicTexture))
         ELSE Result(FALSE, 0)
    ELSE IF Truthy(w.this.imageTexture)
         THEN Result(TRUE, SourceHeight(w.this.imageTexture))
         ELSE Result(FALSE, 0)

\* ---------------------------------------------------------------- animations
\* AnimationManager.destroy(): discards the frame data.
destroy(w) ==
    Log([w EXCEPT !.sprite.frameData = Null], "animations.destroy", Null, Null)

\* AnimationManager.loadFrameData(frameData): receives the frame data.
loadFrameData(w, fd) ==
    Log([w EXCEPT !.sprite.frameData = fd], "animations.loadFrameData", fd, Null)

\* ---------------------------------------------------------------- setTo
\* Variants of setTo with one slip each.
\* The dynamic branch does not assign texture.
setTo_staleTexture(w, image, dynamic) ==
    LET w1 == Log(w, "setTo", image, dynamic)
        w2 == IF Truthy(dynamic)
              THEN [w1 EXCEPT !.this.isDynamic = TRUE,
                              !.this.dynamicTexture = dynamic]
              ELSE [w1 EXCEPT !.this.isDynamic = FALSE,
                              !.this.imageTexture = image,
                              !.this.texture = image]
    IN  [w2 EXCEPT !.this.loaded = TRUE]

\* The dynamic branch does not assign isDynamic.
setTo_forgetsTag(w, image, dynamic) ==
    LET w1 == Log(w, "setTo", image, dynamic)
        w2 == IF Truthy(dynamic)
              THEN [w1 EXCEPT !.this.dynamicTexture = dynamic,
                              !.this.texture = Canvas(dynamic.id)]
              ELSE [w1 EXCEPT !.this.isDynamic = FALSE,
                              !.this.imageTexture = image,
                              !.this.texture = image]
    IN  [w2 EXCEPT !.this.loaded = TRUE]

\* The swap also resets the flip flags.
setTo_resetsFlip(w, image, dynamic) ==
    LET w1 == Log(w, "setTo", image, dynamic)
        w2 == IF Truthy(dynamic)
              THEN [w1 EXCEPT !.this.isDynamic = TRUE,
                              !.this.dynamicTexture = dynamic,
                              !.this.texture = Canvas(dynamic.id)]
              ELSE [w1 EXCEPT !.this.isDynamic = FALSE,
                              !.this.imageTexture = image,
                              !.this.texture = image]
    IN  [w2 EXCEPT !.this.loaded = TRUE,
                   !.this.flippedX = FALSE, !.this.flippedY = FALSE]

setTo(w, image, dynamic) ==
    LET w1 == Log(w, "setTo", image, dynamic)
        w2 == IF Truthy(dynamic)
              THEN [w1 EXCEPT !.this.isDynamic = TRUE,
                              !.this.dynamicTexture = dynamic,
                              !.this.texture = Canvas(dynamic.id)]
              ELSE [w1 EXCEPT !.this.isDynamic = FALSE,
                              !.this.imageTexture = image,
                              !.this.texture = image]
    IN  [w2 EXCEPT !.this.loaded = TRUE]

\* ---------------------------------------------------------------- bounds writes
\* Variant of writeFrameBounds with a slip: the sizes are added to the frame
\* bounds (+= for =).
writeFrameBounds_adds(w) ==
    IF ~width(w).ok
    THEN [w EXCEPT !.thrown = TRUE]
    ELSE LET w1 == Log([w EXCEPT !.sprite.frameBounds.width = @ + width(w).value],
                       "frameBounds.width", Null, Null)
         IN  Log([w1 EXCEPT !.sprite.frameBounds.height = @ + height(w1).value],
                 "frameBounds.height", Null, Null)

\* this._sprite.frameBounds.width = this.width; .height = this.height;
\* a getter that throws ends the method with the exception.
writeFrameBounds(w) ==
    IF ~width(w).ok
    THEN [w EXCEPT !.thrown = TRUE]
    ELSE LET w1 == Log([w EXCEPT !.sprite.frameBounds.width = width(w).value],
                       "frameBounds.width", Null, Null)
         IN  Log([w1 EXCEPT !.sprite.frameBounds.height = height(w1).value],
                 "frameBounds.height", Null, Null)

\* this._sprite.body.bounds.width = this.width; .height = this.height;
writeBodyBounds(w) ==
    IF ~width(w).ok
    THEN [w EXCEPT !.thrown = TRUE]
    ELSE LET w1 == Log([w EXCEPT !.sprite.bodyBounds.width = width(w).value],
                       "body.bounds.width", Null, Null)
         IN  Log([w1 EXCEPT !.sprite.bodyBounds.height = height(w1).value],
                 "body.bounds.height", Null, Null)

\* ---------------------------------------------------------------- loadImage
\* Variants of loadImage with one slip each.
\* No test of the cache lookup: a miss binds the null image.
loadImage_unguarded(w, key, clearAnimations, updateBody) ==
    LET w1 == IF clearAnimations /\ w.sprite.frameData # Null
              THEN destroy(w)
              ELSE w
        w2 == setTo(w1, getImage(key), Null)
        w3 == IF isSpriteSheet(key)
              THEN loadFrameData(w2, getFrameData(key))
              ELSE writeFrameBounds(w2)
    IN  IF w3.thrown THEN w3
        ELSE IF updateBody THEN writeBodyBounds(w3) ELSE w3

\* The animations are destroyed after the backend swap.
loadImage_swapFirst(w, key, clearAnimations, updateBody) ==
    IF getImage(key) # Null
    THEN LET w1 == setTo(w, getImage(key), Null)
             w2 == IF clearAnimations /\ w1.sprite.frameData # Null
                   THEN destroy(w1)
                   ELSE w1
             w3 == IF isSpriteSheet(key)
                   THEN loadFrameData(w2, getFrameData(key))
                   ELSE writeFrameBounds(w2)
         IN  IF w3.thrown THEN w3
             ELSE IF updateBody THEN writeBodyBounds(w3) ELSE w3
    ELSE IF clearAnimations /\ w.sprite.frameData # Null
         THEN destroy(w)
         ELSE w

\* The frame bounds are written for sprite sheets too (no else).
loadImage_noElse(w, key, clearAnimations, updateBody) ==
    LET w1 == IF clearAnimations /\ w.sprite.frameData # Null
              THEN destroy(w)
              ELSE w
    IN  IF getImage(key) # Null
        THEN LET w2 == setTo(w1, getImage(key), Null)
                 w3 == IF isSpriteSheet(key)
                       THEN loadFrameData(w2, getFrameData(key))
                       ELSE w2
                 w4 == writeFrameBounds(w3)
             IN  IF w4.thrown THEN w4
                 ELSE IF updateBody THEN writeBodyBounds(w4) ELSE w4
        ELSE w1

\* A miss marks the texture as not loaded.
loadImage_missUnloads(w, key, clearAnimations, updateBody) ==
    LET w1 == IF clearAnimations /\ w.sprite.frameData # Null
              THEN destroy(w)
              ELSE w
    IN  IF getImage(key) # Null
        THEN LET w2 == setTo(w1, getImage(key), Null)
                 w3 == IF isSpriteSheet(key)
                       THEN loadFrameData(w2, getFrameData(key))
                       ELSE writeFrameBounds(w2)
             IN  IF w3.thrown THEN w3
                 ELSE IF updateBody THEN writeBodyBounds(w3) ELSE w3
        ELSE [w1 EXCEPT !.this.loaded = FALSE]

\* The body bounds are written whatever updateBody says.
loadImage_alwaysBody(w, key, clearAnimations, updateBody) ==
    LET w1 == IF clearAnimations /\ w.sprite.frameData # Null
              THEN destroy(w)
              ELSE w
    IN  IF getImage(key) # Null
        THEN LET w2 == setTo(w1, getImage(key), Null)
                 w3 == IF isSpriteSheet(key)
                       THEN loadFrameData(w2, getFrameData(key))
                       ELSE writeFrameBounds(w2)
             IN  IF w3.thrown THEN w3 ELSE writeBodyBounds(w3)
        ELSE w1

\* The animations are destroyed whatever clearAnimations says.
loadImage_alwaysClears(w, key, clearAnimations, updateBody) ==
    LET w1 == IF w.sprite.frameData # Null
              THEN destroy(w)
              ELSE w
    IN  IF getImage(key) # Null
        THEN LET w2 == setTo(w1, getImage(key), Null)
                 w3 == IF isSpriteSheet(key)
                       THEN loadFrameData(w2, getFrameData(key))
                       ELSE writeFrameBounds(w2)
             IN  IF w3.thrown THEN w3
                 ELSE IF updateBody THEN writeBodyBounds(w3) ELSE w3
        ELSE w1

loadImage(w, key, clearAnimations, updateBody) ==
    LET w1 == IF clearAnimations /\ w.sprite.frameData # Null
              THEN destroy(w)
              ELSE w
    IN  IF getImage(key) # Null
        THEN LET w2 == setTo(w1, getImage(key), Null)
                 w3 == IF isSpriteSheet(key)
                       THEN loadFrameData(w2, getFrameData(key))
                       ELSE writeFrameBounds(w2)
             IN  IF w3.thrown THEN w3
                 ELSE IF updateBody THEN writeBodyBounds(w3) ELSE w3
        ELSE w1

\* ---------------------------------------------------------------- loadDynamicTexture
\* Variant of loadDynamicTexture with a slip: it updates the body as loadImage does.
loadDynamicTexture_updatesBody(w, texture) ==
    LET w1 == IF w.sprite.frameData # Null THEN destroy(w) ELSE w
        w2 == setTo(w1, Null, texture)
        w3 == writeFrameBounds(w2)
    IN  IF w3.thrown THEN w3 ELSE writeBodyBounds(w3)

\* Variant of loadDynamicTexture with a slip: the animations are kept.
loadDynamicTexture_keepsAnimations(w, texture) ==
    writeFrameBounds(setTo(w, Null, texture))

loadDynamicTexture(w, texture) ==
    LET w1 == IF w.sprite.frameData # Null THEN destroy(w) ELSE w
        w2 == setTo(w1, Null, texture)
    IN  writeFrameBounds(w2)

\* ---------------------------------------------------------------- constructor
\* The fields as their initialisers and the constructor's first lines leave
\* them, before the constructor's loadImage call; the parent Sprite has no
\* frame data and zero bounds yet.
Fresh ==
    [this |-> [imageTexture |-> Null, dynamicTexture |-> Null, loaded |-> FALSE,
               isDynamic |-> FALSE, texture |-> Undefined, cacheKey |-> NullKey,
               alpha |-> 1, flippedX |-> FALSE, flippedY |-> FALSE,
               renderRotation |-> TRUE],
     sprite |-> [frameData |-> Null,
                 frameBounds |-> [width |-> 0, height |-> 0],
                 bodyBounds |-> [width |-> 0, height |-> 0]],
     calls |-> <<>>,
     thrown |-> FALSE]

\* Variant of the constructor with a slip: the key is stored but not loaded.
constructor_noLoad(key) ==
    IF key # NullKey
    THEN [Fresh EXCEPT !.this.cacheKey = key]
    ELSE Fresh

constructor(key) ==
    IF key # NullKey
    THEN loadImage([Fresh EXCEPT !.this.cacheKey = key], key, TRUE, TRUE)
    ELSE Fresh

\* ---------------------------------------------------------------- state
VARIABLES
    this,       \* the Texture's fields
    sprite,     \* the parent Sprite's fields the Texture reads and writes
    calls,      \* the collaborator call sequence of the last method call
    thrown,     \* the last method call ended with an exception
    lastOp,     \* history: the last method call and its arguments
    bound,      \* history: the backend named by the most recent setTo call
    repeated    \* history: the last method call repeats the call before it

vars == <<this, sprite, calls, thrown, lastOp, bound, repeated>>

World == [this |-> this, sprite |-> sprite, calls |-> calls, thrown |-> thrown]

\* A method call starts with an empty call sequence and no exception.
Begin == [World EXCEPT !.calls = <<>>, !.thrown = FALSE]

Op(op, key, clearAnimations, updateBody, image, dynamic) ==
    [op |-> op, key |-> key, clearAnimations |-> clearAnimations,
     updateBody |-> updateBody, image |-> image, dynamic |-> dynamic]

\* The backend the last setTo event of a call sequence names, or old if the
\* sequence has no setTo event.
BoundBy(cs, old) ==
    LET p == Pos(cs, "setTo")
    IN  IF p = {} THEN old
        ELSE LET e == cs[CHOOSE i \in p : \A j \in p : j <= i]
             IN  IF Truthy(e.arg2) THEN e.arg2 ELSE e.arg

Commit(w, op) ==
    /\ this' = w.this
    /\ sprite' = w.sprite
    /\ calls' = w.calls
    /\ thrown' = w.thrown
    /\ lastOp' = op
    /\ bound' = BoundBy(w.calls, bound)
    /\ repeated' = (op = lastOp)

Init ==
    \E key \in Keys \cup {NullKey} :
        LET w == constructor(key)
        IN  /\ this = w.this
            /\ sprite = w.sprite
            /\ calls = w.calls
            /\ thrown = w.thrown
            /\ lastOp = Op("constructor", key, TRUE, TRUE, Null, Null)
            /\ bound = BoundBy(w.calls, Null)
            /\ repeated = FALSE

SetTo ==
    \E image \in Images \cup {Null}, dynamic \in DynamicTextures \cup {Null} :
        Commit(setTo(Begin, image, dynamic),
               Op("setTo", NullKey, FALSE, FALSE, image, dynamic))

LoadImage ==
    \E key \in Keys, clearAnimations \in BOOLEAN, updateBody \in BOOLEAN :
        Commit(loadImage(Begin, key, clearAnimations, updateBody),
               Op("loadImage", key, clearAnimations, updateBody, Null, Null))

LoadDynamicTexture ==
    \E texture \in DynamicTextures \cup {Null} :
        Commit(loadDynamicTexture(Begin, texture),
               Op("loadDynamicTexture", NullKey, FALSE, FALSE, Null, texture))

Next == SetTo \/ LoadImage \/ LoadDynamicTexture

Spec == Init /\ [][Next]_vars

\* The loader entry points alone, with non-null buffers.
LoadDynamicTextureNonNull ==
    \E texture \in DynamicTextures :
        Commit(loadDynamicTexture(Begin, texture),
               Op("loadDynamicTexture", NullKey, FALSE, FALSE, Null, texture))

NextLoaders == LoadImage \/ LoadDynamicTextureNonNull

SpecLoaders == Init /\ [][NextLoaders]_vars

\* The public fields alpha, flippedX, flippedY and renderRotation are
\* assigned by the Texture's users; the values they may be given.
FlagValues ==
    {[alpha |-> 1, flippedX |-> FALSE, flippedY |-> FALSE, renderRotation |-> TRUE],
     [alpha |-> 0, flippedX |-> TRUE, flippedY |-> FALSE, renderRotation |-> FALSE],
     [alpha |-> 1, flippedX |-> TRUE, flippedY |-> TRUE, renderRotation |-> TRUE]}

Flags(t) ==
    [alpha |-> t.alpha, flippedX |-> t.flippedX, flippedY |-> t.flippedY,
     renderRotation |-> t.renderRotation]

AssignFlags ==
    \E f \in FlagValues :
        /\ f # Flags(this)
        /\ Commit([Begin EXCEPT !.this.alpha = f.alpha,
                                !.this.flippedX = f.flippedX,
                                !.this.flippedY = f.flippedY,
                                !.this.renderRotation = f.renderRotation],
                  Op("assign", NullKey, FALSE, FALSE, Null, Null))

NextFlags == Next \/ AssignFlags

SpecFlags == Init /\ [][NextFlags]_vars

\* ---------------------------------------------------------------- properties
\* The method calls that are a loadImage call: loadImage itself and the
\* constructor's loadImage(key).
IsLoadImage(op) == op.op \in {"loadImage", "constructor"} /\ op.key # NullKey
Hit(op) == IsLoadImage(op) /\ getImage(op.key) # Null
Miss(op) == IsLoadImage(op) /\ getImage(op.key) = Null

\* The last method call made a bind with exactly one backend.
SuccessfulBind ==
    \/ Hit(lastOp)
    \/ lastOp.op = "loadDynamicTexture" /\ Truthy(lastOp.dynamic)
    \/ lastOp.op = "setTo" /\ (Truthy(lastOp.image) # Truthy(lastOp.dynamic))

SyncNames ==
    {"animations.loadFrameData", "frameBounds.width", "frameBounds.height",
     "body.bounds.width", "body.bounds.height"}

\* C1: after a successful bind exactly one of imageTexture and dynamicTexture
\* is populated, and isDynamic is true exactly when it is dynamicTexture.
C1_ExactlyOneBackend ==
    SuccessfulBind =>
        /\ Truthy(this.imageTexture) # Truthy(this.dynamicTexture)
        /\ this.isDynamic <=> Truthy(this.dynamicTexture)

\* C2: a loadImage call with a key the cache does not hold leaves loaded,
\* imageTexture, dynamicTexture, isDynamic, texture and the results of the
\* width and height getters unchanged, and throws nothing.
C2_MissKeepsBackend ==
    [][Miss(lastOp') =>
        /\ this'.loaded = this.loaded
        /\ this'.imageTexture = this.imageTexture
        /\ this'.dynamicTexture = this.dynamicTexture
        /\ this'.isDynamic = this.isDynamic
        /\ this'.texture = this.texture
        /\ width(World)' = width(World)
        /\ height(World)' = height(World)
        /\ ~thrown']_vars

\* A miss with clearAnimations on a loaded texture whose sprite had frame data.
C2_Witness ==
    /\ Miss(lastOp)
    /\ lastOp.op = "loadImage"
    /\ lastOp.clearAnimations
    /\ this.loaded
    /\ "animations.destroy" \in Names(calls)

\* C3: a loadImage call is all or nothing: on a miss neither the texture nor
\* the sprite's frame data, frame bounds and body bounds change and no
\* collaborator is called; on a hit the image is bound and the dependents
\* are synchronized.
C3_AllOrNothing ==
    [][/\ Miss(lastOp') =>
            /\ this' = this
            /\ sprite' = sprite
            /\ calls' = <<>>
       /\ Hit(lastOp') =>
            /\ this'.loaded /\ ~this'.isDynamic
            /\ this'.imageTexture = getImage(lastOp'.key)
            /\ IF isSpriteSheet(lastOp'.key)
               THEN sprite'.frameData = getFrameData(lastOp'.key)
               ELSE /\ sprite'.frameBounds.width = SourceWidth(getImage(lastOp'.key))
                    /\ sprite'.frameBounds.height = SourceHeight(getImage(lastOp'.key))
            /\ lastOp'.updateBody =>
                 /\ sprite'.bodyBounds.width = SourceWidth(getImage(lastOp'.key))
                 /\ sprite'.bodyBounds.height = SourceHeight(getImage(lastOp'.key))]_vars

\* C4: a loadImage call with clearAnimations on a sprite that holds frame
\* data, with a key the cache holds, calls animations.destroy, then swaps the
\* backend, then synchronizes: one destroy, one setTo after it, and every
\* bounds write and loadFrameData after the setTo.
C4_DiscardSwapSync ==
    [][(Hit(lastOp') /\ lastOp'.clearAnimations /\ sprite.frameData # Null) =>
        /\ Cardinality(Pos(calls', "animations.destroy")) = 1
        /\ Cardinality(Pos(calls', "setTo")) = 1
        /\ \A d \in Pos(calls', "animations.destroy"), s \in Pos(calls', "setTo") :
              /\ d < s
              /\ \A i \in 1 .. Len(calls') :
                    calls'[i].name \in SyncNames => s < i
        /\ Names(calls') \cap SyncNames # {}]_vars

\* A hit that destroyed the animations, swapped and updated the body.
C4_Witness ==
    /\ Hit(lastOp)
    /\ lastOp.clearAnimations
    /\ "animations.destroy" \in Names(calls)
    /\ "setTo" \in Names(calls)
    /\ "body.bounds.height" \in Names(calls)

\* C5: in every loaded state the width and height getters return the
\* dimensions of the most recently bound backend.
C5_DimensionsOfBound ==
    this.loaded =>
        /\ width(World) = Result(TRUE, SourceWidth(bound))
        /\ height(World) = Result(TRUE, SourceHeight(bound))

\* C6: loadDynamicTexture never writes the body's bounds.
C6_DynamicKeepsBody ==
    [][lastOp'.op = "loadDynamicTexture" =>
        /\ sprite'.bodyBounds = sprite.bodyBounds
        /\ Names(calls') \cap {"body.bounds.width", "body.bounds.height"} = {}]_vars

\* A dynamic texture loaded over body bounds that an earlier loadImage set:
\* the frame bounds are the buffer's, the body bounds are still the image's.
C6_Witness ==
    /\ lastOp.op = "loadDynamicTexture"
    /\ Truthy(lastOp.dynamic)
    /\ sprite.frameBounds.width = SourceWidth(lastOp.dynamic)
    /\ sprite.bodyBounds.width \in {SourceWidth(i) : i \in Images}

\* C7: a loadImage hit does exactly one of two things: for a sprite sheet it
\* calls loadFrameData with the cache's frame data and writes no frame
\* bounds; for a single image it writes the image's width and height into
\* the frame bounds and does not call loadFrameData.
C7_FrameDataOrFrameBounds ==
    Hit(lastOp) =>
        IF isSpriteSheet(lastOp.key)
        THEN /\ Cardinality(Pos(calls, "animations.loadFrameData")) = 1
             /\ \A i \in Pos(calls, "animations.loadFrameData") :
                    calls[i].arg = getFrameData(lastOp.key)
             /\ Names(calls) \cap {"frameBounds.width", "frameBounds.height"} = {}
        ELSE /\ {"frameBounds.width", "frameBounds.height"} \subseteq Names(calls)
             /\ sprite.frameBounds.width = SourceWidth(getImage(lastOp.key))
             /\ sprite.frameBounds.height = SourceHeight(getImage(lastOp.key))
             /\ "animations.loadFrameData" \notin Names(calls)

\* A sprite sheet loaded over frame bounds that an earlier call wrote: the
\* frame bounds still hold the earlier size, not the sheet image's.
C7_Witness ==
    /\ Hit(lastOp)
    /\ isSpriteSheet(lastOp.key)
    /\ sprite.frameData = getFrameData(lastOp.key)
    /\ sprite.frameBounds.width # 0
    /\ sprite.frameBounds.width # SourceWidth(getImage(lastOp.key))

\* The state of the binding's state machine.
BindingState(t) ==
    IF ~t.loaded THEN "Unbound" ELSE IF t.isDynamic THEN "Dynamic" ELSE "Static"

\* C8: once loaded is true it stays true, and the binding's state changes
\* only in a method call that calls setTo.
C8_LoadedIsStable ==
    [][/\ this.loaded => this'.loaded
       /\ BindingState(this') # BindingState(this) => "setTo" \in Names(calls')]_vars

\* A miss on a Loaded(Dynamic) binding, which is still Loaded(Dynamic).
C8_Witness ==
    /\ Miss(lastOp)
    /\ lastOp.op = "loadImage"
    /\ BindingState(this) = "Dynamic"

\* C9: loaded is true if and only if the reference isDynamic selects, and
\* texture, are non-null.
C9_LoadedIffBound ==
    this.loaded <=> (Truthy(Selected(World)) /\ Truthy(this.texture))

\* C10: setTo with both an image and a dynamic texture, or with neither,
\* throws and leaves loaded, isDynamic, imageTexture, dynamicTexture and
\* texture as they were.
C10_InvalidBindFailsFast ==
    [][(lastOp'.op = "setTo" /\ Truthy(lastOp'.image) = Truthy(lastOp'.dynamic)) =>
        /\ thrown'
        /\ this'.loaded = this.loaded
        /\ this'.isDynamic = this.isDynamic
        /\ this'.imageTexture = this.imageTexture
        /\ this'.dynamicTexture = this.dynamicTexture
        /\ this'.texture = this.texture]_vars

\* C11: cacheKey holds a key only while the active backend is a static
\* image: never while the binding is Unbound or Dynamic.
C11_CacheKeyOnlyWhenStatic ==
    this.cacheKey # NullKey => BindingState(this) = "Static"

\* C12: after a loadImage hit with key k, cacheKey is k.
C12_CacheKeyIsBoundKey ==
    Hit(lastOp) => this.cacheKey = lastOp.key

\* The last method call bound a non-null DynamicTexture through loadDynamicTexture.
DynamicLoad(op) == op.op = "loadDynamicTexture" /\ Truthy(op.dynamic)

\* C13: the same successful loadImage call (or the same loadDynamicTexture
\* call) made twice in a row leaves the frame bounds and the body bounds as
\* the first call left them.
C13_SyncIdempotent ==
    [][(repeated' /\ (Hit(lastOp') \/ DynamicLoad(lastOp'))) =>
        /\ sprite'.frameBounds = sprite.frameBounds
        /\ sprite'.bodyBounds = sprite.bodyBounds]_vars

\* A single image loaded with updateBody twice in a row.
C13_Witness ==
    /\ repeated
    /\ Hit(lastOp)
    /\ ~isSpriteSheet(lastOp.key)
    /\ lastOp.updateBody
    /\ sprite.frameBounds.width = SourceWidth(getImage(lastOp.key))
    /\ sprite.bodyBounds = sprite.frameBounds

\* C14: in every loaded state texture agrees with isDynamic: the canvas of
\* the bound DynamicTexture when isDynamic, the bound image itself otherwise.
C14_TextureAgreesWithTag ==
    this.loaded =>
        IF this.isDynamic
        THEN /\ this.dynamicTexture = bound
             /\ bound.kind = "dynamic"
             /\ this.texture = Canvas(bound.id)
        ELSE /\ this.imageTexture = bound
             /\ this.texture = bound

\* A DynamicTexture bound over an image that is still referenced: texture is
\* the buffer's canvas.
C14_Witness ==
    /\ this.loaded
    /\ this.isDynamic
    /\ Truthy(this.imageTexture)
    /\ this.texture = Canvas(this.dynamicTexture.id)

\* C15: loadDynamicTexture with a non-null buffer destroys the animations,
\* if the sprite holds frame data, before the buffer is bound, and ends
\* with isDynamic and loaded true and the frame bounds equal to the buffer's
\* width and height.
C15_DynamicLoad ==
    [][DynamicLoad(lastOp') =>
        /\ Cardinality(Pos(calls', "setTo")) = 1
        /\ sprite.frameData # Null =>
              /\ Cardinality(Pos(calls', "animations.destroy")) = 1
              /\ \A d \in Pos(calls', "animations.destroy"), b \in Pos(calls', "setTo") :
                    d < b
              /\ sprite'.frameData = Null
        /\ this'.isDynamic
        /\ this'.loaded
        /\ this'.dynamicTexture = lastOp'.dynamic
        /\ sprite'.frameBounds.width = SourceWidth(lastOp'.dynamic)
        /\ sprite'.frameBounds.height = SourceHeight(lastOp'.dynamic)]_vars

\* A DynamicTexture loaded on a sprite that held frame data.
C15_Witness ==
    /\ DynamicLoad(lastOp)
    /\ "animations.destroy" \in Names(calls)
    /\ this.isDynamic
    /\ sprite.frameBounds.width = SourceWidth(lastOp.dynamic)

\* C16: loadImage writes the body bounds only on a hit with updateBody, and
\* then they are the bound image's width and height; on a miss or with
\* updateBody false they are unchanged.
C16_BodyOnlyWhenRequested ==
    [][(lastOp'.op = "loadImage") =>
        IF Hit(lastOp') /\ lastOp'.updateBody
        THEN /\ sprite'.bodyBounds.width = SourceWidth(getImage(lastOp'.key))
             /\ sprite'.bodyBounds.height = SourceHeight(getImage(lastOp'.key))
             /\ Result(TRUE, sprite'.bodyBounds.width) = width(World)'
             /\ Result(TRUE, sprite'.bodyBounds.height) = height(World)'
        ELSE /\ sprite'.bodyBounds = sprite.bodyBounds
             /\ Names(calls') \cap {"body.bounds.width", "body.bounds.height"} = {}]_vars

\* A single image loaded with updateBody false: the frame bounds are the
\* image's, the body bounds are not.
C16_Witness ==
    /\ lastOp.op = "loadImage"
    /\ Hit(lastOp)
    /\ ~lastOp.updateBody
    /\ sprite.frameBounds.width = SourceWidth(getImage(lastOp.key))
    /\ sprite.bodyBounds.width # SourceWidth(getImage(lastOp.key))

\* C17: loadImage calls animations.destroy only with clearAnimations true
\* and only when the sprite holds frame data.
C17_DestroyOnlyWhenAsked ==
    [][(lastOp'.op = "loadImage" /\ "animations.destroy" \in Names(calls')) =>
        /\ lastOp'.clearAnimations
        /\ sprite.frameData # Null]_vars

\* A single image loaded with clearAnimations false on a sprite that holds
\* frame data: the frame data is still there.
C17_Witness ==
    /\ lastOp.op = "loadImage"
    /\ Hit(lastOp)
    /\ ~isSpriteSheet(lastOp.key)
    /\ ~lastOp.clearAnimations
    /\ sprite.frameData # Null
    /\ calls # <<>>

\* C18: when construction ends, a texture constructed with a key the cache
\* holds is loaded with that image, not dynamic, and the sprite is
\* synchronized; one constructed with no key or an absent key is not loaded,
\* not dynamic, and has no image and no dynamic texture; alpha is 1 and both
\* flip flags are false.
C18_Construction ==
    lastOp.op = "constructor" =>
        /\ this.alpha = 1 /\ ~this.flippedX /\ ~this.flippedY
        /\ ~this.isDynamic
        /\ this.dynamicTexture = Null
        /\ IF getImage(lastOp.key) # Null
           THEN /\ this.loaded
                /\ this.imageTexture = getImage(lastOp.key)
                /\ this.texture = getImage(lastOp.key)
                /\ IF isSpriteSheet(lastOp.key)
                   THEN sprite.frameData = getFrameData(lastOp.key)
                   ELSE /\ sprite.frameBounds.width = SourceWidth(getImage(lastOp.key))
                        /\ sprite.frameBounds.height = SourceHeight(getImage(lastOp.key))
                /\ sprite.bodyBounds.width = SourceWidth(getImage(lastOp.key))
                /\ sprite.bodyBounds.height = SourceHeight(getImage(lastOp.key))
           ELSE /\ ~this.loaded
                /\ this.imageTexture = Null

\* A texture just constructed with a key the cache holds.
C18_Witness ==
    /\ lastOp.op = "constructor"
    /\ getImage(lastOp.key) # Null
    /\ this.loaded

\* C19: no setTo, loadImage or loadDynamicTexture call changes alpha,
\* flippedX, flippedY or renderRotation.
C19_FlagsIndependent ==
    [][lastOp'.op \in {"setTo", "loadImage", "loadDynamicTexture"} =>
        Flags(this') = Flags(this)]_vars

\* A DynamicTexture bound after the user flipped the texture and made it
\* transparent.
C19_Witness ==
    /\ DynamicLoad(lastOp)
    /\ this.isDynamic
    /\ this.flippedX
    /\ this.alpha = 0
    /\ ~this.renderRotation

\* C20: after loadImage calls and loadDynamicTexture calls with non-null
\* buffers only, whenever loaded is true the reference isDynamic selects is
\* non-null and the getters return a value.
C20_GettersDefined ==
    this.loaded =>
        /\ Truthy(Selected(World))
        /\ width(World).ok
        /\ height(World).ok

\* A DynamicTexture loaded after an image, the image reference still set.
C20_Witness ==
    /\ DynamicLoad(lastOp)
    /\ this.loaded
    /\ Truthy(this.imageTexture)
    /\ Selected(World) = lastOp.dynamic

====
